---- MODULE Spec2Model ----
(***************************************************************************)
(* Model of src/3rd.py: the VirtualBox Guest Additions installer script.   *)
(* main() is a linear sequence of shell-outs; every step is one action.    *)
(* The host (file system, loop mount, exit codes of the external commands, *)
(* the operator's answer at the prompt) is the environment.                *)
(***************************************************************************)
EXTENDS Integers, Sequences, FiniteSets, TLC

\* ---------------------------------------------------------------- bounds
MaxRc == 1            \* external commands exit with a code in 0..MaxRc
MaxUid == 1           \* effective uids 0..MaxUid
MaxInputLen == 2      \* length of the line typed at the reboot prompt
MaxCalls == 2         \* run_command calls made by the run_command harness

RetCodes == 0..MaxRc
Uids == 0..MaxUid

VARIABLES
  pc,                 \* position in main(); "exited" once the process is gone
  exitStatus,         \* -1 while running, else the process exit status
  uncaught,           \* name of the exception that killed the process, or "none"
  euid,               \* os.geteuid()
  calls,              \* functions of the script called so far, in order
  cmds,               \* external commands run so far, in order
  attempts,           \* run_guest_additions calls: was the binary there, its exit code
  mountDir,           \* /mnt/iso itself: "absent", "empty", "nonempty", "file"
  mounted,            \* is the ISO loop-mounted on /mnt/iso
  isoFile,            \* does /tmp/VBoxGuestAdditions_<v>.iso exist
  isoHasInstaller,    \* does the ISO hold VBoxLinuxAdditions.run
  targetDir,          \* /tmp/VBox_GA: "absent", "dir", "file"
  targetHasInstaller, \* is /tmp/VBox_GA/VBoxLinuxAdditions.run a regular file
  installerRc,        \* exit code the k-th run of the installer would give
  answer              \* the line read by input() in prompt_reboot, <<>> before

vars == <<pc, exitStatus, uncaught, euid, calls, cmds, attempts, mountDir, mounted,
          isoFile, isoHasInstaller, targetDir, targetHasInstaller, installerRc, answer>>

fsVars == <<mountDir, mounted, isoFile, targetDir, targetHasInstaller>>
envVars == <<euid, isoHasInstaller, installerRc>>

\* ------------------------------------------------- outcomes of a Python call
Return == [kind |-> "return", status |-> 0, exc |-> "none"]
Exit(s) == [kind |-> "exit", status |-> s, exc |-> "none"]
Raise(e) == [kind |-> "raise", status |-> 1, exc |-> e]

\* class VirtualBoxAddonsFileNotFoundException(VirtualBoxAddonsInstallException)
IsFileNotFoundException(e) == e = "VirtualBoxAddonsFileNotFoundException"
IsInstallException(e) ==
  e \in {"VirtualBoxAddonsInstallException", "VirtualBoxAddonsFileNotFoundException"}

\* ------------------------------------------------------------- run_command
RunCommand_IgnoresFailure(rc, check) == Return

RunCommand_ExitsUnchecked(rc, check) ==
  IF rc # 0 THEN Exit(1) ELSE Return

\* run_command(command, check): what happens after subprocess.run gave rc
RunCommand(rc, check) ==
  IF rc # 0 /\ check THEN Exit(1) ELSE Return

\* the record of one external command in cmds
Ran(cmd, rc, check, o) == [cmd |-> cmd, rc |-> rc, check |-> check, outcome |-> o.kind]

\* how main() goes on after a call that ended with outcome o
After(o, next) ==
  /\ pc' = IF o.kind = "return" THEN next ELSE "exited"
  /\ exitStatus' = IF o.kind = "return" THEN exitStatus ELSE o.status
  /\ uncaught' = IF o.kind = "raise" THEN o.exc ELSE uncaught

Init ==
  /\ pc = "ensure_root"
  /\ exitStatus = -1
  /\ uncaught = "none"
  /\ euid \in Uids
  /\ calls = <<>>
  /\ cmds = <<>>
  /\ attempts = <<>>
  /\ mountDir \in {"absent", "empty", "nonempty", "file"}
  /\ mounted = FALSE
  /\ isoFile \in BOOLEAN
  /\ isoHasInstaller \in BOOLEAN
  /\ targetDir \in {"absent", "dir", "file"}
  /\ targetHasInstaller \in (IF targetDir = "dir" THEN BOOLEAN ELSE {FALSE})
  /\ installerRc \in [1..2 -> RetCodes]
  /\ answer = <<>>

\* ------------------------------------------------------------- ensure_root
EnsureRoot_NoExit ==
  /\ pc = "ensure_root"
  /\ calls' = Append(calls, "ensure_root")
  /\ After(Return, "install_required_packages")
  /\ UNCHANGED <<cmds, attempts, answer, fsVars, envVars>>

EnsureRoot ==
  /\ pc = "ensure_root"
  /\ calls' = Append(calls, "ensure_root")
  /\ After(IF euid # 0 THEN Exit(1) ELSE Return, "install_required_packages")
  /\ UNCHANGED <<cmds, attempts, answer, fsVars, envVars>>

\* --------------------------------------------------- install_required_packages
InstallRequiredPackages ==
  /\ pc = "install_required_packages"
  /\ calls' = Append(calls, "install_required_packages")
  /\ \E rc \in RetCodes :
       LET o == RunCommand(rc, TRUE) IN
         /\ cmds' = Append(cmds, Ran("dnf_install_required", rc, TRUE, o))
         /\ After(o, "download_iso")
  /\ UNCHANGED <<attempts, answer, fsVars, envVars>>

\* ---------------------------------------------------------------- download_iso
\* wget -q URL -O FILE: on success the file is there; a failed download may leave
\* the (empty or partial) output file behind.
DownloadIso ==
  /\ pc = "download_iso"
  /\ calls' = Append(calls, "download_iso")
  /\ \E rc \in RetCodes, left \in BOOLEAN :
       LET o == RunCommand(rc, TRUE) IN
         /\ cmds' = Append(cmds, Ran("wget", rc, TRUE, o))
         /\ isoFile' = IF rc = 0 THEN TRUE ELSE (isoFile \/ left)
         /\ After(o, "create_directories")
  /\ UNCHANGED <<attempts, answer, mountDir, mounted, targetDir, targetHasInstaller, envVars>>

\* ---------------------------------------------------------- create_directories
\* os.makedirs(path, exist_ok=True) raises FileExistsError when path is a file.
CreateDirectories ==
  /\ pc = "create_directories"
  /\ calls' = Append(calls, "create_directories")
  /\ IF mountDir = "file"
       THEN /\ After(Raise("FileExistsError"), "mount_iso")
            /\ UNCHANGED <<mountDir, targetDir>>
       ELSE /\ mountDir' = IF mountDir = "absent" THEN "empty" ELSE mountDir
            /\ IF targetDir = "file"
                 THEN /\ After(Raise("FileExistsError"), "mount_iso")
                      /\ UNCHANGED targetDir
                 ELSE /\ targetDir' = "dir"
                      /\ After(Return, "mount_iso")
  /\ UNCHANGED <<cmds, attempts, answer, mounted, isoFile, targetHasInstaller, envVars>>

\* ------------------------------------------------------------------- mount_iso
MountIso ==
  /\ pc = "mount_iso"
  /\ calls' = Append(calls, "mount_iso")
  /\ \E rc \in RetCodes :
       LET o == RunCommand(rc, TRUE) IN
         /\ cmds' = Append(cmds, Ran("mount", rc, TRUE, o))
         /\ mounted' = IF rc = 0 THEN TRUE ELSE mounted
         /\ After(o, "copy_contents")
  /\ UNCHANGED <<attempts, answer, mountDir, isoFile, targetDir, targetHasInstaller, envVars>>

\* --------------------------------------------------------------- copy_contents
\* cp -r /mnt/iso/* /tmp/VBox_GA: a failed copy may have copied part of the tree.
CopyContents ==
  /\ pc = "copy_contents"
  /\ calls' = Append(calls, "copy_contents")
  /\ \E rc \in RetCodes, part \in BOOLEAN :
       LET o == RunCommand(rc, TRUE) IN
         /\ cmds' = Append(cmds, Ran("cp", rc, TRUE, o))
         /\ targetHasInstaller' =
              IF rc = 0 \/ part THEN targetHasInstaller \/ (mounted /\ isoHasInstaller)
                                ELSE targetHasInstaller
         /\ After(o, "unmount_iso")
  /\ UNCHANGED <<attempts, answer, mountDir, mounted, isoFile, targetDir, envVars>>

\* ----------------------------------------------------------------- unmount_iso
UnmountIso_Unchecked ==
  /\ pc = "unmount_iso"
  /\ calls' = Append(calls, "unmount_iso")
  /\ \E rc \in RetCodes :
       LET o == RunCommand(rc, FALSE) IN
         /\ cmds' = Append(cmds, Ran("umount", rc, FALSE, o))
         /\ mounted' = IF rc = 0 THEN FALSE ELSE mounted
         /\ After(o, "try_install")
  /\ UNCHANGED <<attempts, answer, mountDir, isoFile, targetDir, targetHasInstaller, envVars>>

UnmountIso ==
  /\ pc = "unmount_iso"
  /\ calls' = Append(calls, "unmount_iso")
  /\ \E rc \in RetCodes :
       LET o == RunCommand(rc, TRUE) IN
         /\ cmds' = Append(cmds, Ran("umount", rc, TRUE, o))
         /\ mounted' = IF rc = 0 THEN FALSE ELSE mounted
         /\ After(o, "try_install")
  /\ UNCHANGED <<attempts, answer, mountDir, isoFile, targetDir, targetHasInstaller, envVars>>

\* --------------------------------------------------------- run_guest_additions
\* The state a chain of calls inside one step of main() works on.
Frame == [cmds |-> cmds, calls |-> calls, attempts |-> attempts, out |-> Return]

\* os.path.isfile(os.path.join(target_dir, "VBoxLinuxAdditions.run"))
InstallerIsFile == targetDir = "dir" /\ targetHasInstaller

RunGuestAdditions_RaisesFileNotFound(m) ==
  LET k == Len(m.attempts) + 1
      c == Append(m.calls, "run_guest_additions")
  IN IF InstallerIsFile
       THEN LET rc == installerRc[k]
                o == RunCommand(rc, TRUE)
            IN [m EXCEPT !.calls = c,
                         !.cmds = Append(@, Ran("installer", rc, TRUE, o)),
                         !.attempts = Append(@, [present |-> TRUE, rc |-> rc]),
                         !.out = o]
       ELSE [m EXCEPT !.calls = c,
                      !.attempts = Append(@, [present |-> FALSE, rc |-> -1]),
                      !.out = Raise("VirtualBoxAddonsFileNotFoundException")]

RunGuestAdditions(m) ==
  LET k == Len(m.attempts) + 1
      c == Append(m.calls, "run_guest_additions")
  IN IF InstallerIsFile
       THEN LET rc == installerRc[k]
                o == RunCommand(rc, TRUE)
            IN [m EXCEPT !.calls = c,
                         !.cmds = Append(@, Ran("installer", rc, TRUE, o)),
                         !.attempts = Append(@, [present |-> TRUE, rc |-> rc]),
                         !.out = o]
       ELSE [m EXCEPT !.calls = c,
                      !.attempts = Append(@, [present |-> FALSE, rc |-> -1]),
                      !.out = Exit(1)]

\* ------------------------------------------------------ install_kernel_headers
\* Line 50 runs dnf through run_command. Lines 51-52 then hand the same command
\* line, as one string and without shell=True, to subprocess.run, which takes the
\* whole string for the name of a program and raises FileNotFoundError.
InstallKernelHeaders(m, rc) ==
  LET o == RunCommand(rc, TRUE)
      m1 == [m EXCEPT !.calls = Append(@, "install_kernel_headers"),
                      !.cmds = Append(@, Ran("dnf_install_headers", rc, TRUE, o)),
                      !.out = o]
  IN IF o.kind # "return" THEN m1 ELSE [m1 EXCEPT !.out = Raise("FileNotFoundError")]

\* ---------------------------------------------------- clean_old_kernel_headers
CleanOldKernelHeaders(m, rc) ==
  LET o == RunCommand(rc, TRUE)
  IN [m EXCEPT !.calls = Append(@, "clean_old_kernel_headers"),
               !.cmds = Append(@, Ran("dnf_remove_old", rc, TRUE, o)),
               !.out = o]

\* --------------------------------------------- main, lines 140-151: the fallback
\* subprocess.check_output("uname -r", shell=True) raises CalledProcessError on a
\* nonzero exit.
Fallback(m, rcU, rcH, rcP) ==
  LET u == [m EXCEPT !.cmds = Append(@, [cmd |-> "uname", rc |-> rcU, check |-> TRUE,
                                         outcome |-> IF rcU = 0 THEN "return" ELSE "raise"]),
                     !.out = IF rcU = 0 THEN Return ELSE Raise("CalledProcessError")]
      h == InstallKernelHeaders(u, rcH)
      p == CleanOldKernelHeaders(h, rcP)
      r == RunGuestAdditions(p)
  IN IF u.out.kind # "return" THEN u
     ELSE IF h.out.kind # "return" THEN h
     ELSE IF p.out.kind # "return" THEN p
     ELSE IF r.out.kind = "raise" /\ IsInstallException(r.out.exc)
            THEN [r EXCEPT !.out = Exit(1)]
            ELSE r

\* --------------------------------------------- main, lines 135-151: try / except
MainTry_FallbackOnReturn(m, rcU, rcH, rcP) ==
  LET r == RunGuestAdditions(m)
  IN IF r.out.kind = "raise" /\ IsFileNotFoundException(r.out.exc)
       THEN [r EXCEPT !.out = Return]
     ELSE IF r.out.kind = "return" \/ (r.out.kind = "raise" /\ IsInstallException(r.out.exc))
       THEN Fallback([r EXCEPT !.out = Return], rcU, rcH, rcP)
     ELSE r

MainTry(m, rcU, rcH, rcP) ==
  LET r == RunGuestAdditions(m)
  IN IF r.out.kind = "raise" /\ IsFileNotFoundException(r.out.exc)
       THEN [r EXCEPT !.out = Return]
     ELSE IF r.out.kind = "raise" /\ IsInstallException(r.out.exc)
       THEN Fallback([r EXCEPT !.out = Return], rcU, rcH, rcP)
     ELSE r

TryInstall ==
  /\ pc = "try_install"
  /\ \E rcU \in RetCodes, rcH \in RetCodes, rcP \in RetCodes :
       LET r == MainTry(Frame, rcU, rcH, rcP) IN
         /\ cmds' = r.cmds
         /\ calls' = r.calls
         /\ attempts' = r.attempts
         /\ After(r.out, "clean_up")
  /\ UNCHANGED <<answer, fsVars, envVars>>

\* -------------------------------------------------------------------- clean_up
\* os.rmdir, os.remove, shutil.rmtree in this order; the first that raises ends
\* the call and leaves the rest in place.
FsNow == [mountDir |-> mountDir, isoFile |-> isoFile, targetDir |-> targetDir,
          targetHasInstaller |-> targetHasInstaller, out |-> Return]

CleanUpFs_KeepsIso(f) ==
  IF f.mountDir # "empty" \/ mounted THEN [f EXCEPT !.out = Raise("OSError")]
  ELSE LET f1 == [f EXCEPT !.mountDir = "absent"] IN
    IF f1.targetDir # "dir" THEN [f1 EXCEPT !.out = Raise("OSError")]
    ELSE [f1 EXCEPT !.targetDir = "absent", !.targetHasInstaller = FALSE]

CleanUpFs(f) ==
  IF f.mountDir # "empty" \/ mounted THEN [f EXCEPT !.out = Raise("OSError")]
  ELSE LET f1 == [f EXCEPT !.mountDir = "absent"] IN
    IF ~f1.isoFile THEN [f1 EXCEPT !.out = Raise("FileNotFoundError")]
    ELSE LET f2 == [f1 EXCEPT !.isoFile = FALSE] IN
      IF f2.targetDir # "dir" THEN [f2 EXCEPT !.out = Raise("OSError")]
      ELSE [f2 EXCEPT !.targetDir = "absent", !.targetHasInstaller = FALSE]

CleanUp ==
  /\ pc = "clean_up"
  /\ calls' = Append(calls, "clean_up")
  /\ LET f == CleanUpFs(FsNow) IN
       /\ mountDir' = f.mountDir
       /\ isoFile' = f.isoFile
       /\ targetDir' = f.targetDir
       /\ targetHasInstaller' = f.targetHasInstaller
       /\ After(f.out, "prompt_reboot")
  /\ UNCHANGED <<cmds, attempts, answer, mounted, envVars>>

\* --------------------------------------------------------------- prompt_reboot
Whitespace == {" ", "\t"}
Alphabet == {"y", "Y", "n", " ", "\t"}
Inputs == UNION {[1..n -> Alphabet] : n \in 0..MaxInputLen}

RECURSIVE LStrip(_)
LStrip(s) == IF s # <<>> /\ Head(s) \in Whitespace THEN LStrip(Tail(s)) ELSE s

RECURSIVE RStrip(_)
RStrip(s) ==
  IF s # <<>> /\ s[Len(s)] \in Whitespace THEN RStrip(SubSeq(s, 1, Len(s) - 1)) ELSE s

\* str.strip()
Strip(s) == RStrip(LStrip(s))

LowerChar(c) == IF c = "Y" THEN "y" ELSE c

Lower_Identity(s) == s

\* str.lower()
Lower(s) == [i \in 1..Len(s) |-> LowerChar(s[i])]

PromptReboot ==
  /\ pc = "prompt_reboot"
  /\ calls' = Append(calls, "prompt_reboot")
  /\ \E line \in Inputs, rc \in RetCodes :
       LET reboot == Lower(Strip(line)) IN
         /\ answer' = line
         /\ IF reboot = <<"y">>
              THEN LET o == RunCommand(rc, TRUE) IN
                     /\ cmds' = Append(cmds, Ran("reboot", rc, TRUE, o))
                     /\ After(o, "done")
              ELSE /\ cmds' = cmds
                   /\ After(Return, "done")
  /\ UNCHANGED <<attempts, fsVars, envVars>>

\* main, line 155, and the return from main(): the interpreter exits with 0
Done ==
  /\ pc = "done"
  /\ pc' = "exited"
  /\ exitStatus' = 0
  /\ UNCHANGED <<uncaught, calls, cmds, attempts, answer, fsVars, envVars>>

Next ==
  \/ EnsureRoot
  \/ InstallRequiredPackages
  \/ DownloadIso
  \/ CreateDirectories
  \/ MountIso
  \/ CopyContents
  \/ UnmountIso
  \/ TryInstall
  \/ CleanUp
  \/ PromptReboot
  \/ Done

Spec == Init /\ [][Next]_vars

\* ------------------------------------------------ run_command on its own
\* run_command applied to any command, exit code and check flag, up to MaxCalls
\* times or until it ends the process.
CommandNames == {"dnf_install_required", "wget", "mount", "cp", "umount", "installer",
                 "dnf_install_headers", "dnf_remove_old", "reboot"}

InitRunCommand ==
  /\ pc = "run_command"
  /\ exitStatus = -1
  /\ uncaught = "none"
  /\ euid = 0
  /\ calls = <<>>
  /\ cmds = <<>>
  /\ attempts = <<>>
  /\ mountDir = "absent"
  /\ mounted = FALSE
  /\ isoFile = FALSE
  /\ isoHasInstaller = FALSE
  /\ targetDir = "absent"
  /\ targetHasInstaller = FALSE
  /\ installerRc = [k \in 1..2 |-> 0]
  /\ answer = <<>>

CallRunCommand ==
  /\ pc = "run_command"
  /\ Len(cmds) < MaxCalls
  /\ \E c \in CommandNames, rc \in RetCodes, check \in BOOLEAN :
       LET o == RunCommand(rc, check) IN
         /\ cmds' = Append(cmds, Ran(c, rc, check, o))
         /\ After(o, "run_command")
  /\ UNCHANGED <<calls, attempts, answer, fsVars, envVars>>

SpecRunCommand == InitRunCommand /\ [][CallRunCommand]_vars

\* ================================================================ properties
Called(f) == \E i \in DOMAIN calls : calls[i] = f
CallCount(f) == Cardinality({i \in DOMAIN calls : calls[i] = f})
CmdCount(c) == Cardinality({i \in DOMAIN cmds : cmds[i].cmd = c})
FallbackRan ==
  \/ Called("install_kernel_headers")
  \/ Called("clean_old_kernel_headers")
  \/ CmdCount("uname") > 0
  \/ CmdCount("dnf_install_headers") > 0
  \/ CmdCount("dnf_remove_old") > 0

FirstAttemptSucceeded ==
  Len(attempts) >= 1 /\ attempts[1].present /\ attempts[1].rc = 0
FirstAttemptFailed ==
  Len(attempts) >= 1 /\ attempts[1].present /\ attempts[1].rc # 0
FirstAttemptNoBinary ==
  Len(attempts) >= 1 /\ ~attempts[1].present

\* C1: once the first run of the installer has succeeded, the kernel-headers
\* fallback (install_kernel_headers, clean_old_kernel_headers) is never invoked,
\* the installer is not run again, and the next thing main() does is clean_up:
\* the process is about to call it or has called it, after run_guest_additions.
C1_NoFallbackAfterSuccess ==
  FirstAttemptSucceeded =>
    /\ ~FallbackRan
    /\ Len(attempts) = 1
    /\ CallCount("run_guest_additions") = 1
    /\ pc = "clean_up" \/ Called("clean_up")
    /\ \A i \in DOMAIN calls, j \in DOMAIN calls :
         calls[i] = "run_guest_additions" /\ calls[j] = "clean_up" => i < j

C1_Witness == FirstAttemptSucceeded /\ Called("clean_up") /\ pc = "prompt_reboot"

\* C2: when the installer binary exists, its first run exits nonzero and a second
\* run would exit zero, then once main() has left the try statement the kernel
\* headers were installed exactly once, the old kernels were pruned exactly once,
\* the installer was run exactly twice, and the process goes on to clean_up
\* instead of exiting with status 1.
C2_FallbackRecovers ==
  (FirstAttemptFailed /\ installerRc[2] = 0 /\ pc # "try_install") =>
    /\ CmdCount("dnf_install_headers") = 1
    /\ CmdCount("dnf_remove_old") = 1
    /\ Len(attempts) = 2
    /\ pc = "clean_up" \/ Called("clean_up")

\* C3: when the installer fails on the first run and would fail again on the
\* retry, the process exits with status 1 after the second run of the installer:
\* two runs were made, no third, and clean_up was never invoked.
C3_ExitAfterSecondFailure ==
  (FirstAttemptFailed /\ installerRc[2] # 0 /\ pc = "exited") =>
    /\ exitStatus = 1
    /\ Len(attempts) = 2
    /\ ~Called("clean_up")

PreInstallerStep(c) ==
  CASE c = "dnf_install_required" -> "install_required_packages"
    [] c = "wget" -> "download_iso"
    [] c = "mount" -> "mount_iso"
    [] c = "cp" -> "copy_contents"
    [] c = "umount" -> "unmount_iso"
    [] OTHER -> "none"

C5_PreInstallerFailureIsFatal ==
  \A i \in DOMAIN cmds :
    (PreInstallerStep(cmds[i].cmd) # "none" /\ cmds[i].rc # 0) =>
      /\ pc = "exited" /\ exitStatus = 1 /\ uncaught = "none"
      /\ i = Len(cmds)
      /\ calls[Len(calls)] = PreInstallerStep(cmds[i].cmd)
      /\ CallCount(PreInstallerStep(cmds[i].cmd)) = 1
      /\ CmdCount(cmds[i].cmd) = 1
      /\ attempts = <<>>
      /\ answer = <<>>

C5_Witness ==
  /\ pc = "exited"
  /\ cmds # <<>>
  /\ cmds[Len(cmds)].cmd = "cp" /\ cmds[Len(cmds)].rc # 0

\* C6: when the effective user is not root, nothing happens before ensure_root
\* and ensure_root ends the process with status 1: no command is run, no other
\* function of the script is called, no installer attempt and no prompt occur.
C6_NotRootDoesNothing ==
  euid # 0 =>
    /\ cmds = <<>> /\ attempts = <<>> /\ answer = <<>>
    /\ \/ calls = <<>> /\ pc = "ensure_root"
       \/ calls = <<"ensure_root">> /\ pc = "exited" /\ exitStatus = 1 /\ uncaught = "none"

C6_Witness == euid # 0 /\ pc = "exited"

\* C7: for every call of run_command: a nonzero exit with check set ends the
\* process with status 1 at that call; a nonzero exit with check unset, and a
\* zero exit whatever check is, return to the caller, which goes on running.
C7_RunCommandContract ==
  \A i \in DOMAIN cmds :
    LET e == cmds[i]
        returned == e.outcome = "return" /\ (i < Len(cmds) \/ (pc # "exited" /\ exitStatus = -1))
        terminated == e.outcome = "exit" /\ i = Len(cmds) /\ pc = "exited" /\ exitStatus = 1
    IN /\ (e.rc # 0 /\ e.check) => terminated
       /\ (e.rc # 0 /\ ~e.check) => returned
       /\ e.rc = 0 => returned

C7_Witness ==
  /\ Len(cmds) = 2
  /\ cmds[1].rc # 0 /\ ~cmds[1].check
  /\ cmds[2].rc # 0 /\ cmds[2].check
  /\ pc = "exited"

\* C8: whenever the reboot prompt is reached, the mount directory, the ISO file
\* and the extraction directory have all been removed.
C8_PathsRemovedBeforePrompt ==
  (pc = "prompt_reboot" \/ Called("prompt_reboot")) =>
    mountDir = "absent" /\ ~isoFile /\ targetDir = "absent" /\ ~targetHasInstaller

C8_Witness == pc = "prompt_reboot" /\ Called("clean_up")

\* C9: a line that is "y" or "Y" with only whitespace around it triggers exactly
\* one run of the reboot command; any other line triggers none, and the process
\* then finishes with exit status 0. No reboot is run before the prompt.
IsYes(line) ==
  \E i \in DOMAIN line :
    /\ line[i] \in {"y", "Y"}
    /\ \A j \in DOMAIN line : j # i => line[j] \in {" ", "\t"}

C9_RebootOnlyOnYes ==
  /\ ~Called("prompt_reboot") => CmdCount("reboot") = 0
  /\ Called("prompt_reboot") =>
       /\ CmdCount("reboot") = IF IsYes(answer) THEN 1 ELSE 0
       /\ ~IsYes(answer) => pc \in {"done", "exited"} /\ exitStatus \in {-1, 0}
       /\ (~IsYes(answer) /\ pc = "exited") => exitStatus = 0

C9_Witness ==
  /\ pc = "exited"
  /\ answer = <<" ", "Y">>
  /\ CmdCount("reboot") = 1

\* C10: the ISO is mounted at most once; the installer is run only after a
\* successful copy followed by a successful unmount, with the ISO no longer
\* mounted; clean_up is called only with the ISO not mounted; and an exit with
\* status 1 after a successful mount and before a successful unmount leaves the
\* ISO mounted.
CmdOk(i, c) == cmds[i].cmd = c /\ cmds[i].rc = 0

C10_MountOrdering ==
  /\ CmdCount("mount") <= 1
  /\ \A i \in DOMAIN cmds :
       cmds[i].cmd = "installer" =>
         /\ ~mounted
         /\ \E j \in 1..(i - 1), k \in 1..(i - 1) : j < k /\ CmdOk(j, "cp") /\ CmdOk(k, "umount")
  /\ (attempts # <<>> \/ Called("clean_up")) => ~mounted
  /\ ( /\ pc = "exited" /\ exitStatus = 1
       /\ \E j \in DOMAIN cmds : CmdOk(j, "mount")
       /\ ~\E k \in DOMAIN cmds : CmdOk(k, "umount") ) => mounted

C10_Witness ==
  /\ pc = "exited" /\ exitStatus = 1 /\ mounted
  /\ cmds[Len(cmds)].cmd = "umount"

====
